---- MODULE Spec2Model ----
(***************************************************************************)
(* Model of the inchworm dimension graph (BaseDimensionDef,                *)
(* DimensionComponent, DerivedDimensionDef behind Arc/Weak handles) and of *)
(* the DimensionRegistry.                                                  *)
(*                                                                         *)
(* Strings are sequences of characters, rationals are pairs                *)
(* <<numer, denom>>, an Arc allocation is an index into `heap` whose       *)
(* strong count is heap[n].strong, and a Weak is such an index (0 for      *)
(* Weak::new(), which never had a target).                                 *)
(***************************************************************************)
EXTENDS Integers, Sequences, FiniteSets, TLC

\* ---------------------------------------------------------------- bounds
MaxNodes  == 2    \* Arc allocations made by the client
MaxStrong == 2    \* strong handles the client holds on one allocation
MaxComps  == 2    \* DimensionComponent values the client keeps at once
MaxVec    == 2    \* length of the Vec handed to DerivedDimensionDef::new
MaxStrLen == 2    \* length of the strings tried on the constructors alone
MaxChain  == 3    \* allocations in a chain of derived dimensions

\* ---------------------------------------------------------------- inputs
Chars   == { "L", "l", "t" }
Strings == UNION { [1 .. k -> Chars] : k \in 0 .. MaxStrLen }
Names   == { <<>>, <<"L">> }
Symbols == { <<>>, <<"l">> }
Numers  == { 0, 3 }
Denoms  == { 1, 2 }
Keys    == { <<"l">>, <<"L">> }

\* ---------------------------------------------------------------- values
Unit      == [tag |-> "Unit"]
None      == [tag |-> "None"]
Some(v)   == [tag |-> "Some", val |-> v]
Ok(v)     == [tag |-> "Ok", val |-> v]
Err(e)    == [tag |-> "Err", err |-> e]
Bool(b)   == [tag |-> "Bool", val |-> b]

InvalidDefinition(msg) == [kind |-> "InvalidDefinition", msg |-> msg]
InvalidComponent(msg)  == [kind |-> "InvalidComponent", msg |-> msg]
BaseDimensionAlreadyDefined(dimension) ==
    [kind |-> "BaseDimensionAlreadyDefined", dimension |-> dimension]

is_empty(s) == Len(s) = 0

\* ------------------------------------------------------------- rationals
Abs(i) == IF i < 0 THEN -i ELSE i

RECURSIVE Gcd(_, _)
Gcd(a, b) == IF b = 0 THEN a ELSE Gcd(b, a % b)

\* Ratio::new: reduce to lowest terms with a positive denominator.
RatioNew(n, d) ==
    LET g == Gcd(Abs(n), Abs(d))
        s == IF d < 0 THEN -1 ELSE 1
    IN  << s * (n \div g), s * (d \div g) >>

\* Ratio::from(i)
RatioFrom(i) == << i, 1 >>

\* Ratio's PartialEq compares the values, not the representations.
RatioEq(a, b) == a[1] * b[2] = b[1] * a[2]

Exponents == { RatioNew(n, d) : n \in Numers, d \in Denoms }

\* ----------------------------------------------------------------- state
VARIABLES
    heap,             \* Seq of [def, strong]: the Arc<DimensionDef> allocations
    pool,             \* the DimensionComponent values the client holds
    observed,         \* Some(c) while the client relies on a true c.is_valid()
    base_dimensions,  \* DimensionRegistry.base_dimensions
    ret,              \* the last call: [op, args, result]
    calls,            \* register calls in progress: who holds &mut, and each caller
    view              \* Some(registry as it was) once a BaseDimensionsView exists

host == << calls, view >>

vars == << heap, pool, observed, base_dimensions, ret, calls, view >>

Callers == { 1, 2 }

NoCalls ==
    [holder |-> 0, of |-> [t \in Callers |-> [pc |-> "idle"]]]

HostInit ==
    /\ calls = NoCalls
    /\ view = [tag |-> "None"]

NullWeak == 0
Allocs   == 1 .. Len(heap)
Weaks    == {NullWeak} \cup Allocs

\* Weak::upgrade: a strong handle iff a strong owner is left at this instant.
upgrade_always(w) == IF w \in Allocs THEN Some(w) ELSE None

upgrade_pending(w) ==
    IF w \in Allocs /\ ( heap[w].strong > 0 \/ heap[w].def.kind = "Pending" )
    THEN Some(w)
    ELSE None

upgrade(w) == IF w \in Allocs /\ heap[w].strong > 0 THEN Some(w) ELSE None

\* ------------------------------------------------------ BaseDimensionDef
BaseDimensionDef_new_unchecked(name, symbol) ==
    Ok([kind |-> "Base", name |-> name, symbol |-> symbol, components |-> <<>>])

BaseDimensionDef_new(name, symbol) ==
    IF is_empty(name)
    THEN Err(InvalidDefinition(<< "Base dimension name cannot be empty." >>))
    ELSE IF is_empty(symbol)
    THEN Err(InvalidDefinition(
             << "Base dimension (", name, ") symbol cannot be empty." >>))
    ELSE Ok([kind |-> "Base", name |-> name, symbol |-> symbol,
             components |-> <<>>])

BaseDimensionDef_name(def)   == def.name
BaseDimensionDef_symbol(def) == def.symbol

\* ---------------------------------------------------- DimensionComponent
DimensionComponent_new_no_zero_check(dimension, exponent) ==
    IF upgrade(dimension).tag = "None"
    THEN Err(InvalidComponent(<< "Cannot create DimensionComponent when the dimension reference has been dropped." >>))
    ELSE Ok([dimension |-> dimension, exponent |-> exponent])

DimensionComponent_new_zero_first(dimension, exponent) ==
    IF RatioEq(exponent, RatioFrom(0))
    THEN Err(InvalidComponent(<< "Exponent cannot be zero. Consider referencing a dimensionless dimension with an exponent of 1." >>))
    ELSE IF upgrade(dimension).tag = "None"
    THEN Err(InvalidComponent(<< "Cannot create DimensionComponent when the dimension reference has been dropped." >>))
    ELSE Ok([dimension |-> dimension, exponent |-> exponent])

DimensionComponent_new(dimension, exponent) ==
    IF upgrade(dimension).tag = "None"
    THEN Err(InvalidComponent(<< "Cannot create DimensionComponent when the dimension reference has been dropped." >>))
    ELSE IF RatioEq(exponent, RatioFrom(0))
    THEN Err(InvalidComponent(<< "Exponent cannot be zero. Consider referencing a dimensionless dimension with an exponent of 1." >>))
    ELSE Ok([dimension |-> dimension, exponent |-> exponent])

is_valid_cached(c) == c.dimension \in Allocs

is_valid(c) == upgrade(c.dimension).tag = "Some"

DimensionComponent_dimension(c) == upgrade(c.dimension)

DimensionComponent_exponent(c) == c.exponent

\* --------------------------------------------------- DerivedDimensionDef
Reverse(s) == [i \in 1 .. Len(s) |-> s[Len(s) + 1 - i]]

DerivedDimensionDef_new_reversed(name, symbol, comps) ==
    IF is_empty(name) \/ is_empty(symbol) \/ Len(comps) = 0
       \/ \E i \in 1 .. Len(comps) : ~is_valid(comps[i])
    THEN Err(InvalidDefinition(<< "invalid" >>))
    ELSE Ok([kind |-> "Derived", name |-> name, symbol |-> symbol,
             components |-> Reverse(comps)])

DerivedDimensionDef_new_no_revalidation(name, symbol, comps) ==
    IF is_empty(name) \/ is_empty(symbol) \/ Len(comps) = 0
    THEN Err(InvalidDefinition(<< "invalid" >>))
    ELSE Ok([kind |-> "Derived", name |-> name, symbol |-> symbol,
             components |-> comps])

DerivedDimensionDef_new_registered(name, symbol, comps) ==
    IF is_empty(name) \/ is_empty(symbol) \/ Len(comps) = 0
       \/ \E i \in 1 .. Len(comps) :
              \/ ~is_valid(comps[i])
              \/ heap[comps[i].dimension].def.name \notin DOMAIN base_dimensions
    THEN Err(InvalidDefinition(<< "invalid" >>))
    ELSE Ok([kind |-> "Derived", name |-> name, symbol |-> symbol,
             components |-> comps])

DerivedDimensionDef_new_components_first(name, symbol, comps) ==
    IF Len(comps) = 0
    THEN Err(InvalidDefinition(
             << "Derived dimension (", name, ") must have at least one component." >>))
    ELSE IF \E i \in 1 .. Len(comps) : ~is_valid(comps[i])
    THEN Err(InvalidDefinition(
             << "Derived dimension (", name, ") has invalid components. All component dimension references must be valid." >>))
    ELSE IF is_empty(name)
    THEN Err(InvalidDefinition(<< "Derived dimension name cannot be empty." >>))
    ELSE IF is_empty(symbol)
    THEN Err(InvalidDefinition(
             << "Derived dimension (", name, ") symbol cannot be empty." >>))
    ELSE Ok([kind |-> "Derived", name |-> name, symbol |-> symbol,
             components |-> comps])

DerivedDimensionDef_new(name, symbol, comps) ==
    IF is_empty(name)
    THEN Err(InvalidDefinition(<< "Derived dimension name cannot be empty." >>))
    ELSE IF is_empty(symbol)
    THEN Err(InvalidDefinition(
             << "Derived dimension (", name, ") symbol cannot be empty." >>))
    ELSE IF Len(comps) = 0
    THEN Err(InvalidDefinition(
             << "Derived dimension (", name, ") must have at least one component." >>))
    ELSE IF \E i \in 1 .. Len(comps) : ~is_valid(comps[i])
    THEN Err(InvalidDefinition(
             << "Derived dimension (", name, ") has invalid components. All component dimension references must be valid." >>))
    ELSE Ok([kind |-> "Derived", name |-> name, symbol |-> symbol,
             components |-> comps])

DerivedDimensionDef_name(def)       == def.name
DerivedDimensionDef_symbol(def)     == def.symbol
DerivedDimensionDef_components(def) == def.components

\* ------------------------------------------------------ DimensionRegistry
\* The registry stores the BaseDimensionDef of dimension_def.rs, whose
\* constructor validates nothing.
LegacyBaseDimensionDef_new(name, symbol) == [name |-> name, symbol |-> symbol]

\* HashMap::insert: the new map and the value the key had before.
HashMap_insert_clearing(m, k, v) ==
    [map |-> [x \in {k} |-> v],
     old |-> IF k \in DOMAIN m THEN Some(m[k]) ELSE None]

HashMap_insert(m, k, v) ==
    [map |-> [x \in DOMAIN m \cup {k} |-> IF x = k THEN v ELSE m[x]],
     old |-> IF k \in DOMAIN m THEN Some(m[k]) ELSE None]

get_base_dimension(dimension) ==
    IF dimension \in DOMAIN base_dimensions
    THEN Some(base_dimensions[dimension])
    ELSE None

has_base_dimension(dimension) == get_base_dimension(dimension).tag = "Some"

\* Both registry writes are given as [map, result]: the registry after the
\* call and the value the call returns.
register_base_dimension_overwriting(dimension, definition) ==
    [map    |-> HashMap_insert(base_dimensions, dimension, definition).map,
     result |-> IF has_base_dimension(dimension)
                THEN Err(BaseDimensionAlreadyDefined(dimension))
                ELSE Ok(Unit)]

register_base_dimension(dimension, definition) ==
    IF has_base_dimension(dimension)
    THEN [map    |-> base_dimensions,
          result |-> Err(BaseDimensionAlreadyDefined(dimension))]
    ELSE [map    |-> HashMap_insert(base_dimensions, dimension, definition).map,
          result |-> Ok(Unit)]

replace_base_dimension_checked(dimension, definition) ==
    IF has_base_dimension(dimension)
    THEN [map    |-> base_dimensions,
          result |-> Err(BaseDimensionAlreadyDefined(dimension))]
    ELSE [map    |-> HashMap_insert(base_dimensions, dimension, definition).map,
          result |-> Unit]

\* The value HashMap::insert returns is discarded: the method returns ().
replace_base_dimension(dimension, definition) ==
    [map    |-> HashMap_insert(base_dimensions, dimension, definition).map,
     result |-> Unit]


\* `&mut self`: a call that writes the registry runs only while no other call
\* holds the registry.
can_borrow_mut_unchecked(t) == TRUE

can_borrow_mut(t) == calls.holder = 0

\* ---------------------------------------------------------- DimensionDef
\* The sum of the two definitions. A stored definition carries its variant in
\* `kind`; the accessors dispatch on it.
DimensionDef_name(def) ==
    IF def.kind = "Base"
    THEN BaseDimensionDef_name(def)
    ELSE DerivedDimensionDef_name(def)

DimensionDef_symbol(def) ==
    IF def.kind = "Base"
    THEN BaseDimensionDef_symbol(def)
    ELSE DerivedDimensionDef_symbol(def)

DimensionDef_components_none(def) == << >>

DimensionDef_components(def) ==
    IF def.kind = "Base"
    THEN << >>
    ELSE DerivedDimensionDef_components(def)

DimensionDef_is_base(def) == def.kind = "Base"

DimensionDef_is_derived(def) == def.kind = "Derived"

\* ----------------------------------------------------------- the binding
\* errors.rs: either DimensionError becomes a ValueError with its message.
dimension_error_to_pyerr(err) == [kind |-> "ValueError", msg |-> err.msg]

\* impl From<BaseDimensionDef> for PyBaseDimensionDef
PyBaseDimensionDef_from(def) == [_inner |-> def]

\* #[new] fn new(name, symbol) -> Self: the constructor it calls returns a
\* value, not a Result, and the conversion wraps it.
PyBaseDimensionDef_new(name, symbol) ==
    PyBaseDimensionDef_from(LegacyBaseDimensionDef_new(name, symbol))

\* The map behind the registry, as the view reads it.
DimensionRegistry_base_dimensions(registry) == registry

\* A view holds a reference to the registry object and nothing else; `taken`
\* records the map as it was when the view was made, for the claims only.
PyBaseDimensionsView(registry) == [registry |-> "self", taken |-> registry]

View_borrow_snapshot(v) == v.taken

\* self.registry.borrow(py)._inner: the registry as it is now.
View_borrow(v) == base_dimensions

KeyError(key) == [kind |-> "KeyError", msg |-> << "Key '", key, "' not found" >>]

PyNone == [kind |-> "None"]

Defaults == { None, Some([kind |-> "default"]) }

View_getitem(v, key) ==
    LET m == DimensionRegistry_base_dimensions(View_borrow(v)) IN
    IF key \in DOMAIN m
    THEN Ok(PyBaseDimensionDef_from(m[key]))
    ELSE Err(KeyError(key))

View_len(v) ==
    Cardinality(DOMAIN DimensionRegistry_base_dimensions(View_borrow(v)))

View_contains(v, key) ==
    key \in DOMAIN DimensionRegistry_base_dimensions(View_borrow(v))

View_keys(v) == DOMAIN DimensionRegistry_base_dimensions(View_borrow(v))

View_get(v, key, default) ==
    LET m == DimensionRegistry_base_dimensions(View_borrow(v)) IN
    IF key \in DOMAIN m
    THEN Ok(PyBaseDimensionDef_from(m[key]))
    ELSE Ok(IF default.tag = "Some" THEN default.val ELSE PyNone)

\* ------------------------------------------------------------ the client
Dropped == [kind |-> "Dropped"]

\* The components a caller can reach: the ones it holds and the ones stored
\* in a derived dimension that still has a strong owner.
Range(s) == { s[i] : i \in 1 .. Len(s) }

StoredComponents ==
    UNION { Range(heap[n].def.components) :
              n \in { m \in Allocs : heap[m].def.kind = "Derived" } }

AllComponents == pool \cup StoredComponents

Vecs == UNION { [1 .. k -> pool] : k \in 0 .. MaxVec }

Call(op, args, result) == [op |-> op, args |-> args, result |-> result]

Init ==
    /\ heap = << >>
    /\ pool = {}
    /\ observed = None
    /\ base_dimensions = << >>
    /\ ret = Call("start", Unit, Unit)
    /\ HostInit

\* BaseDimensionDef::new(name, symbol)
BaseNewOver(N, S) ==
    \E nm \in N, sym \in S :
        /\ ret' = Call("BaseDimensionDef::new", [name |-> nm, symbol |-> sym],
                       BaseDimensionDef_new(nm, sym))
        /\ UNCHANGED << heap, pool, observed, base_dimensions, host >>

BaseNew == BaseNewOver(Names, Symbols)

BaseNewAnyString == BaseNewOver(Strings, Strings)

BaseNewNamed == BaseNewOver({ << "L" >> }, { << "l" >> })

\* DerivedDimensionDef::new(name, symbol, components)
DerivedNewOver(N, S) ==
    \E nm \in N, sym \in S, comps \in Vecs :
        /\ ret' = Call("DerivedDimensionDef::new",
                       [name |-> nm, symbol |-> sym, components |-> comps],
                       DerivedDimensionDef_new(nm, sym, comps))
        /\ UNCHANGED << heap, pool, observed, base_dimensions, host >>

DerivedNew == DerivedNewOver(Names, Symbols)

DerivedNewNamed == DerivedNewOver({ << "L" >> }, { << "l" >> })

\* Arc::new: a fresh allocation with one strong owner. A Weak keeps the
\* allocation it was made from, so no later allocation is the one it names.
Arc_new_reusing(def) ==
    IF \E n \in Allocs : heap[n].strong = 0
    THEN [heap EXCEPT ![CHOOSE n \in Allocs : heap[n].strong = 0] =
                          [def |-> def, strong |-> 1]]
    ELSE Append(heap, [def |-> def, strong |-> 1])

Arc_new(def) == Append(heap, [def |-> def, strong |-> 1])

\* Arc::new(def.unwrap().into()): the definition just built gets its first
\* strong owner.
ArcNew ==
    /\ ret.op \in { "BaseDimensionDef::new", "DerivedDimensionDef::new" }
    /\ ret.result.tag = "Ok"
    /\ Len(heap) < MaxNodes
    /\ heap' = Arc_new(ret.result.val)
    /\ ret' = Call("Arc::new", Unit, Some(Len(heap) + 1))
    /\ UNCHANGED << pool, observed, base_dimensions, host >>

\* Arc::new_cyclic(|weak| ..): the allocation exists, and a Weak to it is in
\* the closure's hands, before it holds a value or has an owner.
Pending == [kind |-> "Pending"]

Pendings == { n \in Allocs : heap[n].def.kind = "Pending" }

ArcNewCyclicBegin ==
    /\ Pendings = {}
    /\ Len(heap) < MaxNodes
    /\ heap' = Append(heap, [def |-> Pending, strong |-> 0])
    /\ ret' = Call("Arc::new_cyclic begin", Unit, Some(Len(heap) + 1))
    /\ UNCHANGED << pool, observed, base_dimensions, host >>

\* The closure returns the definition it built: the allocation gets the value
\* and its first strong owner.
ArcNewCyclicEnd ==
    \E n \in Pendings :
        /\ ret.op \in { "BaseDimensionDef::new", "DerivedDimensionDef::new" }
        /\ ret.result.tag = "Ok"
        /\ heap' = [heap EXCEPT ![n] = [def |-> ret.result.val, strong |-> 1]]
        /\ ret' = Call("Arc::new_cyclic", Unit, Some(n))
        /\ UNCHANGED << pool, observed, base_dimensions, host >>

\* Arc::clone: one more strong owner.
ArcClone ==
    \E n \in Allocs :
        /\ heap[n].strong > 0
        /\ heap[n].strong < MaxStrong
        /\ heap' = [heap EXCEPT ![n].strong = @ + 1]
        /\ ret' = Call("Arc::clone", [target |-> n], Some(n))
        /\ UNCHANGED << pool, observed, base_dimensions, host >>

\* drop(arc): a strong owner goes; the last one takes the definition (and the
\* components stored in it) with it.
Release_pruning(n) ==
    [m \in Allocs |->
        IF m = n
        THEN IF heap[m].strong = 1
             THEN [def |-> Dropped, strong |-> 0]
             ELSE [heap[m] EXCEPT !.strong = @ - 1]
        ELSE IF heap[m].def.kind = "Derived" /\ heap[n].strong = 1
             THEN [heap[m] EXCEPT !.def.components =
                       SelectSeq(@, LAMBDA c : c.dimension # n)]
             ELSE heap[m]]

Release_cascading(n) ==
    [m \in Allocs |->
        IF m = n
        THEN IF heap[m].strong = 1
             THEN [def |-> Dropped, strong |-> 0]
             ELSE [heap[m] EXCEPT !.strong = @ - 1]
        ELSE IF /\ heap[n].strong = 1
                /\ heap[n].def.kind = "Derived"
                /\ heap[m].strong > 0
                /\ \E i \in DOMAIN heap[n].def.components :
                       heap[n].def.components[i].dimension = m
             THEN IF heap[m].strong = 1
                  THEN [def |-> Dropped, strong |-> 0]
                  ELSE [heap[m] EXCEPT !.strong = @ - 1]
             ELSE heap[m]]

Release(n) ==
    [heap EXCEPT ![n] = IF @.strong = 1
                        THEN [def |-> Dropped, strong |-> 0]
                        ELSE [@ EXCEPT !.strong = @ - 1]]

ArcDrop ==
    \E n \in Allocs :
        /\ heap[n].strong > 0
        /\ heap' = Release(n)
        /\ ret' = Call("drop", [target |-> n, kind |-> heap[n].def.kind], Unit)
        /\ UNCHANGED << pool, observed, base_dimensions, host >>

\* DimensionComponent::new(weak, exponent)
ComponentNewOver(E) ==
    \E w \in Weaks, e \in E :
        /\ ret' = Call("DimensionComponent::new",
                       [dimension |-> w, exponent |-> e],
                       DimensionComponent_new(w, e))
        /\ UNCHANGED << heap, pool, observed, base_dimensions, host >>

ComponentNew == ComponentNewOver(Exponents)

ComponentNewCubed == ComponentNewOver({ RatioFrom(3) })

\* let c = DimensionComponent::new(..).unwrap();
KeepComponent ==
    /\ ret.op = "DimensionComponent::new"
    /\ ret.result.tag = "Ok"
    /\ Cardinality(pool \cup {ret.result.val}) <= MaxComps
    /\ pool' = pool \cup {ret.result.val}
    /\ ret' = Call("let", Unit, Unit)
    /\ UNCHANGED << heap, observed, base_dimensions, host >>

\* drop(component)
DropComponent ==
    \E c \in pool :
        /\ pool' = pool \ {c}
        /\ observed' = IF observed = Some(c) THEN None ELSE observed
        /\ ret' = Call("drop component", Unit, Unit)
        /\ UNCHANGED << heap, base_dimensions, host >>

\* c.is_valid()
IsValidCall ==
    \E c \in AllComponents :
        /\ ret' = Call("is_valid", [c |-> c], Bool(is_valid(c)))
        /\ observed' = IF is_valid(c) THEN Some(c) ELSE None
        /\ UNCHANGED << heap, pool, base_dimensions, host >>

\* The Option<Arc<DimensionDef>> that upgrade() returned, in the caller's
\* hands: a Some is one more strong owner of the allocation.
Handle_held_borrowed(r) == heap

Handle_held(r) ==
    IF r.tag = "Some"
    THEN [heap EXCEPT ![r.val].strong = @ + 1]
    ELSE heap

\* c.dimension(): the handle returned is a strong owner of its own.
DimensionCall ==
    \E c \in AllComponents :
        LET r == DimensionComponent_dimension(c) IN
        /\ r.tag = "Some" => heap[r.val].strong < MaxStrong
        /\ heap' = Handle_held(r)
        /\ ret' = Call("dimension", [c |-> c, checked |-> observed = Some(c)], r)
        /\ observed' = None
        /\ UNCHANGED << pool, base_dimensions, host >>

\* c.exponent()
ExponentCall ==
    \E c \in AllComponents :
        /\ ret' = Call("exponent", [c |-> c], Some(DimensionComponent_exponent(c)))
        /\ UNCHANGED << heap, pool, observed, base_dimensions, host >>

\* d.name(), d.symbol(), d.components() on a derived dimension that still has
\* an owner.
Deriveds == { n \in Allocs : heap[n].def.kind = "Derived" }

DerivedNameCall ==
    \E n \in Deriveds :
        /\ ret' = Call("DerivedDimensionDef::name", [target |-> n],
                       Some(DerivedDimensionDef_name(heap[n].def)))
        /\ UNCHANGED << heap, pool, observed, base_dimensions, host >>

DerivedSymbolCall ==
    \E n \in Deriveds :
        /\ ret' = Call("DerivedDimensionDef::symbol", [target |-> n],
                       Some(DerivedDimensionDef_symbol(heap[n].def)))
        /\ UNCHANGED << heap, pool, observed, base_dimensions, host >>

DerivedComponentsCall ==
    \E n \in Deriveds :
        /\ ret' = Call("DerivedDimensionDef::components", [target |-> n],
                       Some(DerivedDimensionDef_components(heap[n].def)))
        /\ UNCHANGED << heap, pool, observed, base_dimensions, host >>

\* The uniform accessors of DimensionDef, on a dimension that has an owner.
Owned == { n \in Allocs : heap[n].strong > 0 }

DefNameCall ==
    \E n \in Owned :
        /\ ret' = Call("DimensionDef::name", [target |-> n],
                       Some(DimensionDef_name(heap[n].def)))
        /\ UNCHANGED << heap, pool, observed, base_dimensions, host >>

DefSymbolCall ==
    \E n \in Owned :
        /\ ret' = Call("DimensionDef::symbol", [target |-> n],
                       Some(DimensionDef_symbol(heap[n].def)))
        /\ UNCHANGED << heap, pool, observed, base_dimensions, host >>

DefComponentsCall ==
    \E n \in Owned :
        /\ ret' = Call("DimensionDef::components", [target |-> n],
                       Some(DimensionDef_components(heap[n].def)))
        /\ UNCHANGED << heap, pool, observed, base_dimensions, host >>

DefIsBaseCall ==
    \E n \in Owned :
        /\ ret' = Call("DimensionDef::is_base", [target |-> n],
                       Bool(DimensionDef_is_base(heap[n].def)))
        /\ UNCHANGED << heap, pool, observed, base_dimensions, host >>

DefIsDerivedCall ==
    \E n \in Owned :
        /\ ret' = Call("DimensionDef::is_derived", [target |-> n],
                       Bool(DimensionDef_is_derived(heap[n].def)))
        /\ UNCHANGED << heap, pool, observed, base_dimensions, host >>

\* BaseDimensionDef(name, symbol) in Python: a #[new] that returns Self hands
\* the host an object, whatever the arguments.
PyBaseNew ==
    \E nm \in Strings, sym \in Strings :
        /\ ret' = Call("PyBaseDimensionDef::new", [name |-> nm, symbol |-> sym],
                       Ok(PyBaseDimensionDef_new(nm, sym)))
        /\ UNCHANGED << heap, pool, observed, base_dimensions, host >>

\* view = registry.base_dimensions
TakeView ==
    /\ view' = Some(PyBaseDimensionsView(base_dimensions))
    /\ ret' = Call("base_dimensions", Unit, Unit)
    /\ UNCHANGED << heap, pool, observed, base_dimensions, calls >>

\* view[key]
ViewGetItem ==
    \E k \in Keys :
        /\ view.tag = "Some"
        /\ ret' = Call("__getitem__", [key |-> k], View_getitem(view.val, k))
        /\ UNCHANGED << heap, pool, observed, base_dimensions, host >>

\* len(view)
ViewLen ==
    /\ view.tag = "Some"
    /\ ret' = Call("__len__", Unit, Some(View_len(view.val)))
    /\ UNCHANGED << heap, pool, observed, base_dimensions, host >>

\* key in view
ViewContains ==
    \E k \in Keys :
        /\ view.tag = "Some"
        /\ ret' = Call("__contains__", [key |-> k], Bool(View_contains(view.val, k)))
        /\ UNCHANGED << heap, pool, observed, base_dimensions, host >>

\* iter(view), view.keys()
ViewKeys ==
    /\ view.tag = "Some"
    /\ ret' = Call("keys", Unit, Some(View_keys(view.val)))
    /\ UNCHANGED << heap, pool, observed, base_dimensions, host >>

\* view.get(key, default)
ViewGet ==
    \E k \in Keys, d \in Defaults :
        /\ view.tag = "Some"
        /\ ret' = Call("get", [key |-> k, default |-> d], View_get(view.val, k, d))
        /\ UNCHANGED << heap, pool, observed, base_dimensions, host >>

\* registry.register_base_dimension(key, definition)
RegisterOver(N, S) ==
    \E k \in Keys, nm \in N, sym \in S :
        LET d == LegacyBaseDimensionDef_new(nm, sym)
            r == register_base_dimension(k, d)
        IN  /\ base_dimensions' = r.map
            /\ ret' = Call("register_base_dimension",
                           [dimension |-> k, definition |-> d], r.result)
            /\ UNCHANGED << heap, pool, observed, host >>

Register == RegisterOver(Names, Symbols)

RegisterNamed == RegisterOver({ << "L" >> }, Symbols)

\* registry.replace_base_dimension(key, definition)
ReplaceOver(N, S) ==
    \E k \in Keys, nm \in N, sym \in S :
        LET d == LegacyBaseDimensionDef_new(nm, sym)
            r == replace_base_dimension(k, d)
        IN  /\ base_dimensions' = r.map
            /\ ret' = Call("replace_base_dimension",
                           [dimension |-> k, definition |-> d], r.result)
            /\ UNCHANGED << heap, pool, observed, host >>

Replace == ReplaceOver(Names, Symbols)

ReplaceNamed == ReplaceOver({ << "L" >> }, Symbols)

\* registry.get_base_dimension(key)
Get ==
    \E k \in Keys :
        /\ ret' = Call("get_base_dimension", [dimension |-> k],
                       get_base_dimension(k))
        /\ UNCHANGED << heap, pool, observed, base_dimensions, host >>

\* registry.has_base_dimension(key)
Has ==
    \E k \in Keys :
        /\ ret' = Call("has_base_dimension", [dimension |-> k],
                       Bool(has_base_dimension(k)))
        /\ UNCHANGED << heap, pool, observed, base_dimensions, host >>

NextRegistry ==
    \/ Register
    \/ Replace
    \/ Get
    \/ Has

SpecRegistry == Init /\ [][NextRegistry]_vars

\* register_base_dimension, statement by statement, for callers that may try
\* to run it at the same time: taking `&mut self`, has_base_dimension, then
\* the insert or the error and the return.
RegisterBegin ==
    \E t \in Callers, k \in Keys, nm \in Names, sym \in Symbols :
        /\ calls.of[t].pc = "idle"
        /\ can_borrow_mut(t)
        /\ calls' = [holder |-> t,
                     of |-> [calls.of EXCEPT ![t] =
                                [pc |-> "check", dimension |-> k,
                                 definition |-> LegacyBaseDimensionDef_new(nm, sym)]]]
        /\ UNCHANGED << heap, pool, observed, base_dimensions, ret, view >>

RegisterCheck ==
    \E t \in Callers :
        /\ calls.of[t].pc = "check"
        /\ calls' = [calls EXCEPT !.of[t] =
                        [pc |-> "insert", dimension |-> @.dimension,
                         definition |-> @.definition,
                         present |-> has_base_dimension(@.dimension)]]
        /\ UNCHANGED << heap, pool, observed, base_dimensions, ret, view >>

RegisterReturn ==
    \E t \in Callers :
        LET c == calls.of[t] IN
        /\ c.pc = "insert"
        /\ base_dimensions' =
               IF c.present
               THEN base_dimensions
               ELSE HashMap_insert(base_dimensions, c.dimension, c.definition).map
        /\ calls' = [holder |-> IF calls.holder = t THEN 0 ELSE calls.holder,
                     of |-> [calls.of EXCEPT ![t] =
                                [pc |-> "done", dimension |-> c.dimension,
                                 definition |-> c.definition,
                                 present |-> c.present,
                                 result |-> IF c.present
                                            THEN Err(BaseDimensionAlreadyDefined(c.dimension))
                                            ELSE Ok(Unit)]]]
        /\ UNCHANGED << heap, pool, observed, ret, view >>

NextOverlap ==
    \/ RegisterBegin
    \/ RegisterCheck
    \/ RegisterReturn

SpecOverlap == Init /\ [][NextOverlap]_vars

\* The constructor alone, over every string up to MaxStrLen.
NextBaseNew == BaseNewAnyString

SpecBaseNew == Init /\ [][NextBaseNew]_vars

\* Components over base dimensions only.
NextComponent ==
    \/ BaseNew
    \/ ArcNew
    \/ ArcClone
    \/ ArcDrop
    \/ ComponentNew
    \/ KeepComponent
    \/ DropComponent
    \/ IsValidCall
    \/ DimensionCall
    \/ ExponentCall

SpecComponent == Init /\ [][NextComponent]_vars

\* DerivedDimensionDef::new alone, applied to every vector of components over
\* base dimensions that were shared and referred to before, while their
\* owners let go of them.
BaseNode == [def |-> BaseDimensionDef_new(<< "L" >>, << "l" >>).val, strong |-> 1]

InitDerivedNew ==
    /\ heap \in { [i \in 1 .. k |-> BaseNode] : k \in 0 .. MaxNodes }
    /\ pool \in { P \in SUBSET { DimensionComponent_new(w, e).val :
                                   w \in 1 .. Len(heap),
                                   e \in Exponents \ { RatioFrom(0) } } :
                    Cardinality(P) <= MaxComps }
    /\ observed = None
    /\ base_dimensions = << >>
    /\ ret = Call("start", Unit, Unit)
    /\ HostInit

NextDerivedNew ==
    \/ ArcDrop
    \/ DerivedNew

SpecDerivedNew == InitDerivedNew /\ [][NextDerivedNew]_vars

\* Releases alone, from every graph the constructors can have built: each
\* allocation is a base dimension or a dimension derived from earlier ones,
\* every owner still holds its first handle, and the client holds components
\* on some of them.
ComponentsOn(k) ==
    { [dimension |-> w, exponent |-> e] :
        w \in 1 .. k, e \in Exponents \ { RatioFrom(0) } }

DerivedNode(comps) ==
    [def    |-> [kind |-> "Derived", name |-> << "L" >>, symbol |-> << "l" >>,
                 components |-> comps],
     strong |-> 1]

NodesOver(k) ==
    { BaseNode } \cup
    { DerivedNode(comps) :
        comps \in UNION { [1 .. n -> ComponentsOn(k)] : n \in 1 .. MaxVec } }

RECURSIVE Heaps(_)
Heaps(k) ==
    IF k = 0
    THEN { << >> }
    ELSE { Append(h, nd) : h \in Heaps(k - 1), nd \in NodesOver(k - 1) }

InitRelease ==
    /\ heap \in UNION { Heaps(k) : k \in 0 .. MaxNodes }
    /\ pool \in { P \in SUBSET ComponentsOn(Len(heap)) :
                    Cardinality(P) <= MaxComps }
    /\ observed = None
    /\ base_dimensions = << >>
    /\ ret = Call("start", Unit, Unit)
    /\ HostInit

NextRelease == ArcDrop

SpecRelease == InitRelease /\ [][NextRelease]_vars

\* The registry written while a graph is built and released next to it.
NextCoupling ==
    \/ RegisterNamed
    \/ ReplaceNamed
    \/ ComponentNew
    \/ DerivedNewNamed
    \/ ArcDrop

SpecCoupling == InitDerivedNew /\ [][NextCoupling]_vars

\* A derived dimension from its construction on: it gets an owner, its
\* targets lose theirs, and its accessors are read.
NextLifetime ==
    \/ DerivedNewNamed
    \/ ArcNew
    \/ ArcDrop
    \/ DerivedNameCall
    \/ DerivedSymbolCall
    \/ DerivedComponentsCall

SpecLifetime == InitDerivedNew /\ [][NextLifetime]_vars

\* The accessors of DimensionDef over graphs of base and derived dimensions.
NextSurface ==
    \/ DefNameCall
    \/ DefSymbolCall
    \/ DefComponentsCall
    \/ DefIsBaseCall
    \/ DefIsDerivedCall

SpecSurface == InitRelease /\ [][NextSurface]_vars

\* The Python constructor alone, over every string up to MaxStrLen.
NextBinding == PyBaseNew

SpecBinding == Init /\ [][NextBinding]_vars

\* A view read while the registry it was taken from is written.
NextView ==
    \/ RegisterNamed
    \/ ReplaceNamed
    \/ TakeView
    \/ ViewGetItem
    \/ ViewLen
    \/ ViewContains
    \/ ViewKeys
    \/ ViewGet

SpecView == Init /\ [][NextView]_vars

\* Chains of derivation: every allocation is a base dimension or is derived
\* from earlier allocations, one component per target, and the owners clone
\* and drop their handles.
ChainComponents(k) ==
    { v \in UNION { [1 .. n -> 1 .. k] : n \in 1 .. MaxVec } :
        \A i \in DOMAIN v : \A j \in DOMAIN v : i < j => v[i] < v[j] }

ChainNodesOver(k) ==
    { BaseNode } \cup
    { DerivedNode([i \in DOMAIN v |->
                      [dimension |-> v[i], exponent |-> RatioFrom(3)]]) :
        v \in ChainComponents(k) }

RECURSIVE Chains(_)
Chains(k) ==
    IF k = 0
    THEN { << >> }
    ELSE { Append(h, nd) : h \in Chains(k - 1), nd \in ChainNodesOver(k - 1) }

InitChain ==
    /\ heap \in UNION { Chains(k) : k \in 0 .. MaxChain }
    /\ pool = {}
    /\ observed = None
    /\ base_dimensions = << >>
    /\ ret = Call("start", Unit, Unit)
    /\ HostInit

NextChain ==
    \/ ArcClone
    \/ ArcDrop

SpecChain == InitChain /\ [][NextChain]_vars

\* Handles taken from dimension() and dropped again, with no Arc::clone:
\* an allocation has more than one owner only through such handles.
NextHandle ==
    \/ BaseNew
    \/ ArcNew
    \/ ArcDrop
    \/ ComponentNew
    \/ KeepComponent
    \/ IsValidCall
    \/ DimensionCall

SpecHandle == Init /\ [][NextHandle]_vars

\* Graphs built by the constructors alone, Arc::new_cyclic included.
NextCyclic ==
    \/ BaseNewNamed
    \/ DerivedNewNamed
    \/ ArcNew
    \/ ArcNewCyclicBegin
    \/ ArcNewCyclicEnd
    \/ ComponentNewCubed
    \/ KeepComponent
    \/ ArcDrop

SpecCyclic == Init /\ [][NextCyclic]_vars

NextGraph ==
    \/ BaseNew
    \/ DerivedNew
    \/ ArcNew
    \/ ArcClone
    \/ ArcDrop
    \/ ComponentNew
    \/ KeepComponent
    \/ DropComponent
    \/ IsValidCall
    \/ DimensionCall
    \/ ExponentCall

SpecGraph == Init /\ [][NextGraph]_vars

\* ================================================================ claims
Alive(w) == w \in Allocs /\ heap[w].strong > 0

\* C1: BaseDimensionDef::new(name, symbol) fails, with InvalidDefinition,
\* exactly when name or symbol is the empty string; otherwise the value it
\* returns has name() and symbol() equal to the two inputs.
C1_BaseNewFailsIffEmpty ==
    ret.op = "BaseDimensionDef::new" =>
        LET n == ret.args.name
            s == ret.args.symbol
        IN  /\ (ret.result.tag = "Err") <=> (n = << >> \/ s = << >>)
            /\ ret.result.tag \in { "Ok", "Err" }
            /\ ret.result.tag = "Err" =>
                   ret.result.err.kind = "InvalidDefinition"
            /\ ret.result.tag = "Ok" =>
                   /\ BaseDimensionDef_name(ret.result.val) = n
                   /\ BaseDimensionDef_symbol(ret.result.val) = s

C1_Witness ==
    /\ ret.op = "BaseDimensionDef::new"
    /\ ret.result.tag = "Ok"
    /\ Len(ret.args.name) = MaxStrLen
    /\ ret.args.symbol = << "t" >>

\* C2: DimensionComponent::new(dimension, exponent) fails, with
\* InvalidComponent, exactly when the reference has no live strong owner at
\* the call or the exponent is zero; otherwise exponent() of the component
\* is the rational supplied.
C2_ComponentNewFailsIffDanglingOrZero ==
    ret.op = "DimensionComponent::new" =>
        LET w == ret.args.dimension
            e == ret.args.exponent
        IN  /\ (ret.result.tag = "Err") <=> (~Alive(w) \/ e[1] = 0)
            /\ ret.result.tag \in { "Ok", "Err" }
            /\ ret.result.tag = "Err" =>
                   ret.result.err.kind = "InvalidComponent"
            /\ ret.result.tag = "Ok" =>
                   DimensionComponent_exponent(ret.result.val) = e

C2_Witness ==
    /\ ret.op = "DimensionComponent::new"
    /\ ret.result.tag = "Ok"
    /\ ret.args.exponent = << 3, 2 >>
    /\ \E n \in Allocs : heap[n].strong = 0

\* C3: DerivedDimensionDef::new(name, symbol, components) fails, with
\* InvalidDefinition, exactly when the name is empty, the symbol is empty,
\* there is no component, or some component's target has no strong owner at
\* the call.
C3_DerivedNewFailsIff ==
    ret.op = "DerivedDimensionDef::new" =>
        LET n  == ret.args.name
            s  == ret.args.symbol
            cs == ret.args.components
        IN  /\ (ret.result.tag = "Err") <=>
                   \/ n = << >>
                   \/ s = << >>
                   \/ cs = << >>
                   \/ \E i \in DOMAIN cs : ~Alive(cs[i].dimension)
            /\ ret.result.tag \in { "Ok", "Err" }
            /\ ret.result.tag = "Err" =>
                   ret.result.err.kind = "InvalidDefinition"

C3_Witness ==
    /\ ret.op = "DerivedDimensionDef::new"
    /\ ret.result.tag = "Err"
    /\ ret.args.name # << >>
    /\ ret.args.symbol # << >>
    /\ Len(ret.args.components) = 2
    /\ Alive(ret.args.components[1].dimension)
    /\ ~Alive(ret.args.components[2].dimension)

\* C4: register on a key that is present fails with
\* BaseDimensionAlreadyDefined carrying that key and leaves the whole
\* registry as it was.
C4_RegisterPresentKeyFailsUnchanged ==
    [][ ( /\ ret'.op = "register_base_dimension"
          /\ ret'.args.dimension \in DOMAIN base_dimensions )
        => /\ ret'.result.tag = "Err"
           /\ ret'.result.err.kind = "BaseDimensionAlreadyDefined"
           /\ ret'.result.err.dimension = ret'.args.dimension
           /\ base_dimensions' = base_dimensions ]_vars

C4_Witness ==
    /\ ret.op = "register_base_dimension"
    /\ ret.result.tag = "Err"
    /\ base_dimensions[ret.args.dimension] # ret.args.definition
    /\ DOMAIN base_dimensions = Keys

\* C5: replace(k, v2) returns Some(v1) when k held v1 and None when k was
\* absent, and afterwards k maps to v2 and no other key has changed.
C5_ReplaceReportsPrior ==
    [][ ret'.op = "replace_base_dimension" =>
          LET k == ret'.args.dimension IN
          /\ k \in DOMAIN base_dimensions =>
                 /\ ret'.result.tag = "Some"
                 /\ ret'.result.val = base_dimensions[k]
          /\ k \notin DOMAIN base_dimensions => ret'.result.tag = "None"
          /\ DOMAIN base_dimensions' = DOMAIN base_dimensions \cup {k}
          /\ base_dimensions'[k] = ret'.args.definition ]_vars

\* C6: when the last strong owner of a dimension goes, every component that
\* refers to it, held by the client or stored in a derived dimension, turns
\* from valid to invalid and its dimension() from Some to None, while the
\* components themselves stay as they were.
C6_ReleaseInvalidatesComponents ==
    [][ \A n \in Allocs :
          (heap[n].strong = 1 /\ heap'[n].strong = 0) =>
              /\ pool' = pool
              /\ \A m \in Allocs \ {n} : heap'[m] = heap[m]
              /\ \A c \in AllComponents :
                     c.dimension = n =>
                         /\ c \in AllComponents'
                         /\ is_valid(c)
                         /\ ~is_valid(c)'
                         /\ DimensionComponent_dimension(c).tag = "Some"
                         /\ DimensionComponent_dimension(c)'.tag = "None" ]_vars

C6_Witness ==
    /\ ret.op = "drop"
    /\ heap[ret.args.target].strong = 0
    /\ \E c \in pool : c.dimension = ret.args.target
    /\ \E c \in StoredComponents : c.dimension = ret.args.target
    /\ Cardinality({ c \in AllComponents : c.dimension = ret.args.target }) >= 2

\* C7: is_valid() and dimension() answer for the instant of the call: the
\* result is the liveness of the target then, so dimension() gives None,
\* not a handle, when the last owner went after a true is_valid().
C7_ValidityResolvedPerCall ==
    /\ ret.op = "is_valid" =>
           ret.result.val = (heap[ret.args.c.dimension].strong > 0)
    /\ ret.op = "dimension" =>
           LET t == ret.args.c.dimension IN
           /\ ret.result.tag \in { "Some", "None" }
           /\ ret.result.tag = "None" <=> heap[t].strong = 0
           /\ ret.result.tag = "Some" =>
                  /\ ret.result.val = t
                  /\ heap[t].strong >= 2

C7_Witness ==
    /\ ret.op = "dimension"
    /\ ret.args.checked
    /\ ret.result.tag = "None"

\* C8: a DerivedDimensionDef that was built holds the components supplied,
\* as many and in the same order, each with the target and the exponent it
\* was given.
C8_ComponentsKeepOrder ==
    (ret.op = "DerivedDimensionDef::new" /\ ret.result.tag = "Ok") =>
        LET cs  == DerivedDimensionDef_components(ret.result.val)
            sup == ret.args.components
        IN  /\ Len(cs) = Len(sup)
            /\ \A i \in 1 .. Len(sup) :
                   /\ cs[i].dimension = sup[i].dimension
                   /\ DimensionComponent_exponent(cs[i]) = sup[i].exponent

C8_Witness ==
    /\ ret.op = "DerivedDimensionDef::new"
    /\ ret.result.tag = "Ok"
    /\ Len(ret.result.val.components) = 2
    /\ ret.args.components[1] # ret.args.components[2]

\* C9: BaseDimensionAlreadyDefined comes from register alone: replace never
\* fails, whether its key is present or absent.
C9_OnlyRegisterConflicts ==
    /\ ret.op = "replace_base_dimension" =>
           /\ ret.result.tag # "Err"
           /\ ret.args.dimension \in DOMAIN base_dimensions
           /\ base_dimensions[ret.args.dimension] = ret.args.definition
    /\ (ret.result.tag = "Err"
          /\ ret.result.err.kind = "BaseDimensionAlreadyDefined") =>
           ret.op = "register_base_dimension"

C9_Witness ==
    /\ ret.op = "replace_base_dimension"
    /\ ret.result.tag = "Unit"
    /\ DOMAIN base_dimensions = Keys

\* C10: no registry call removes a key: a key that is present stays present.
C10_KeysNeverLost ==
    [][ DOMAIN base_dimensions \subseteq DOMAIN base_dimensions' ]_vars

C10_Witness ==
    /\ DOMAIN base_dimensions = Keys
    /\ ret.op = "has_base_dimension"
    /\ ret.result.val

\* C11: two register calls on the same absent key never both find it
\* absent: once both have returned, one has Ok, the other
\* BaseDimensionAlreadyDefined with the key, and the registry holds the
\* definition of the one that got Ok.
C11_OverlappingRegisterOneWins ==
    \A t \in Callers : \A u \in Callers \ {t} :
        LET a == calls.of[t]
            b == calls.of[u]
        IN  /\ ( /\ a.pc \in { "insert", "done" }
                 /\ b.pc \in { "insert", "done" }
                 /\ a.dimension = b.dimension )
               => (a.present \/ b.present)
            /\ (a.pc = "done" /\ b.pc = "done" /\ a.dimension = b.dimension
                /\ a.result.tag = "Ok")
               => /\ b.result.tag = "Err"
                  /\ b.result.err.kind = "BaseDimensionAlreadyDefined"
                  /\ b.result.err.dimension = a.dimension
                  /\ base_dimensions[a.dimension] = a.definition
            /\ (a.pc = "done" /\ b.pc = "done" /\ a.dimension = b.dimension)
               => (a.result.tag = "Ok" \/ b.result.tag = "Ok")

C11_Witness ==
    /\ calls.of[1].pc = "done"
    /\ calls.of[2].pc = "done"
    /\ calls.of[1].dimension = calls.of[2].dimension
    /\ calls.of[1].definition # calls.of[2].definition
    /\ calls.of[2].result.tag = "Ok"
    /\ calls.of[1].result.tag = "Err"

\* C12: the registry and the graph do not meet: whether a component or a
\* derived dimension can be built depends on the liveness of the targets
\* alone, whatever the registry holds, and a register or a replace leaves
\* every allocation and every component, with its validity, target and
\* exponent, as it was.
C12_GraphAndRegistryNotCoupled ==
    [][ /\ ret'.op \in { "register_base_dimension", "replace_base_dimension" } =>
              /\ heap' = heap
              /\ pool' = pool
              /\ \A c \in AllComponents :
                     /\ c \in AllComponents'
                     /\ is_valid(c)' = is_valid(c)
                     /\ DimensionComponent_dimension(c)' =
                            DimensionComponent_dimension(c)
        /\ ret'.op = "DimensionComponent::new" =>
              ( ret'.result.tag = "Ok" <=>
                    /\ Alive(ret'.args.dimension)
                    /\ ret'.args.exponent[1] # 0 )
        /\ ret'.op = "DerivedDimensionDef::new" =>
              ( ret'.result.tag = "Ok" <=>
                    /\ ret'.args.name # << >>
                    /\ ret'.args.symbol # << >>
                    /\ ret'.args.components # << >>
                    /\ \A i \in DOMAIN ret'.args.components :
                           Alive(ret'.args.components[i].dimension) ) ]_vars

C12_Witness ==
    /\ ret.op = "DerivedDimensionDef::new"
    /\ ret.result.tag = "Ok"
    /\ \A n \in Allocs :
           heap[n].strong > 0 => heap[n].def.name \notin DOMAIN base_dimensions
    /\ DOMAIN base_dimensions # {}

\* C13: a DerivedDimensionDef is valid at birth: when DerivedDimensionDef::new
\* returns Ok every stored component is_valid(). After that it degrades
\* silently: while the definition has an owner no step changes its name,
\* symbol or components, the accessors return exactly those, and a released
\* target shows only as is_valid() = false on the stored component.
C13_ValidAtBirthDegradesSilently ==
    [][ /\ ( ret'.op = "DerivedDimensionDef::new" /\ ret'.result.tag = "Ok" ) =>
              \A c \in Range(ret'.result.val.components) : is_valid(c)'
        /\ \A n \in Deriveds : n \in Deriveds' => heap'[n].def = heap[n].def
        /\ ( ret'.op = "DerivedDimensionDef::name" =>
                ret'.result = Some(heap'[ret'.args.target].def.name) )
        /\ ( ret'.op = "DerivedDimensionDef::symbol" =>
                ret'.result = Some(heap'[ret'.args.target].def.symbol) )
        /\ ( ret'.op = "DerivedDimensionDef::components" =>
                ret'.result = Some(heap'[ret'.args.target].def.components) ) ]_vars

C13_Witness ==
    /\ ret.op = "DerivedDimensionDef::components"
    /\ ret.result.val # << >>
    /\ \E i \in DOMAIN ret.result.val : ~is_valid(ret.result.val[i])

\* C14: a DimensionDef wraps exactly one of a base or a derived definition
\* and validates nothing: name() and symbol() equal the wrapped value's,
\* components() is empty for a base and the wrapped value's for a derived
\* definition, and exactly one of is_base() and is_derived() is true.
C14_DimensionDefDispatches ==
    LET d == heap[ret.args.target].def IN
    /\ ret.op = "DimensionDef::name" => ret.result = Some(d.name)
    /\ ret.op = "DimensionDef::symbol" => ret.result = Some(d.symbol)
    /\ ret.op = "DimensionDef::components" =>
           /\ d.kind \in { "Base", "Derived" }
           /\ d.kind = "Base" => ret.result = Some(<< >>)
           /\ d.kind = "Derived" => ret.result = Some(d.components)
    /\ ret.op = "DimensionDef::is_base" =>
           ret.result = Bool(~DimensionDef_is_derived(d))
    /\ ret.op = "DimensionDef::is_derived" =>
           ret.result = Bool(~DimensionDef_is_base(d))

C14_Witness ==
    /\ ret.op = "DimensionDef::components"
    /\ heap[ret.args.target].def.kind = "Derived"
    /\ ret.result.val # << >>
    /\ \E n \in Owned : DimensionDef_is_base(heap[n].def)

\* C15: the binding surfaces every constructor failure as a host error that
\* carries the message: constructing a Python BaseDimensionDef with an empty
\* name or an empty symbol raises the ValueError made from the error of
\* BaseDimensionDef::new, and yields no object.
C15_PyConstructorRaises ==
    ret.op = "PyBaseDimensionDef::new" =>
        LET r == BaseDimensionDef_new(ret.args.name, ret.args.symbol) IN
        r.tag = "Err" => ret.result = Err(dimension_error_to_pyerr(r.err))

\* C16: the registry view is live and read-only: a key lookup, membership
\* test, length, key listing or default-valued get on a view, whenever the
\* view was obtained, answers for the registry as it is at that call
\* (entries registered or replaced since included), and leaves the registry
\* unchanged.
C16_ViewLiveReadOnly ==
    [][ LET m == base_dimensions
            k == ret'.args.key
        IN
        /\ ret'.op \in { "__getitem__", "__len__", "__contains__", "keys", "get" } =>
               base_dimensions' = base_dimensions
        /\ ret'.op = "__getitem__" =>
               /\ k \in DOMAIN m => ret'.result = Ok([_inner |-> m[k]])
               /\ k \notin DOMAIN m => ret'.result = Err(KeyError(k))
        /\ ret'.op = "__len__" => ret'.result = Some(Cardinality(DOMAIN m))
        /\ ret'.op = "__contains__" => ret'.result = Bool(k \in DOMAIN m)
        /\ ret'.op = "keys" => ret'.result = Some(DOMAIN m)
        /\ ret'.op = "get" =>
               /\ k \in DOMAIN m => ret'.result = Ok([_inner |-> m[k]])
               /\ ( k \notin DOMAIN m /\ ret'.args.default.tag = "Some" ) =>
                      ret'.result = Ok(ret'.args.default.val)
               /\ ( k \notin DOMAIN m /\ ret'.args.default.tag = "None" ) =>
                      ret'.result = Ok(PyNone) ]_vars

C16_Witness ==
    /\ ret.op = "__getitem__"
    /\ ret.result.tag = "Ok"
    /\ view.tag = "Some"
    /\ \/ ret.args.key \notin DOMAIN view.val.taken
       \/ view.val.taken[ret.args.key] # ret.result.val._inner

\* C17: DimensionComponent::new checks liveness first and the exponent
\* second: a reference that no longer resolves is reported as the dropped
\* reference, also when the exponent is zero; the zero exponent is reported
\* only for a reference that resolves.
C17_LivenessBeforeExponent ==
    ret.op = "DimensionComponent::new" =>
        LET w == ret.args.dimension
            e == ret.args.exponent
        IN  /\ ~Alive(w) =>
                   ret.result = Err(InvalidComponent(<< "Cannot create DimensionComponent when the dimension reference has been dropped." >>))
            /\ ( Alive(w) /\ e[1] = 0 ) =>
                   ret.result = Err(InvalidComponent(<< "Exponent cannot be zero. Consider referencing a dimensionless dimension with an exponent of 1." >>))

C17_Witness ==
    /\ ret.op = "DimensionComponent::new"
    /\ ret.args.dimension \in Allocs
    /\ ~Alive(ret.args.dimension)
    /\ ret.args.exponent[1] = 0
    /\ ret.result.tag = "Err"

\* C18: DerivedDimensionDef::new checks the name, then the symbol, then that
\* there is a component, then that every component is valid, and reports the
\* first check that fails. The four messages differ from one another, and
\* the last three carry the name.
C18_FirstFailureReported ==
    ret.op = "DerivedDimensionDef::new" =>
        LET n  == ret.args.name
            s  == ret.args.symbol
            cs == ret.args.components
            noName    == << "Derived dimension name cannot be empty." >>
            noSymbol  == << "Derived dimension (", n, ") symbol cannot be empty." >>
            noComps   == << "Derived dimension (", n, ") must have at least one component." >>
            badComps  == << "Derived dimension (", n, ") has invalid components. All component dimension references must be valid." >>
            failed    == IF n = << >> THEN noName
                         ELSE IF s = << >> THEN noSymbol
                         ELSE IF cs = << >> THEN noComps
                         ELSE IF \E i \in DOMAIN cs : ~Alive(cs[i].dimension)
                         THEN badComps
                         ELSE << >>
        IN  /\ failed # << >> => ret.result = Err(InvalidDefinition(failed))
            /\ failed = << >> => ret.result.tag = "Ok"
            /\ Cardinality({ noName, noSymbol, noComps, badComps }) = 4
            /\ ( ret.result.tag = "Err" /\ n # << >> ) =>
                   /\ Len(ret.result.err.msg) = 3
                   /\ ret.result.err.msg[2] = n

C18_Witness ==
    /\ ret.op = "DerivedDimensionDef::new"
    /\ ret.args.name # << >>
    /\ ret.args.symbol = << >>
    /\ \E i \in DOMAIN ret.args.components :
           ~Alive(ret.args.components[i].dimension)
    /\ ret.result.tag = "Err"

\* C19: components may refer to derived dimensions, and liveness is per
\* node. When the last owner of a dimension goes, the components stored on
\* it in other derived dimensions turn invalid, while every other
\* allocation, the targets of the released definition's own components
\* among them, keeps its definition and its owners.
C19_LivenessPerNode ==
    [][ \A n \in Allocs :
          (heap[n].strong = 1 /\ heap'[n].strong = 0) =>
              /\ \A m \in Allocs \ {n} : heap'[m] = heap[m]
              /\ heap[n].def.kind = "Derived" =>
                     \A c \in Range(heap[n].def.components) :
                         /\ heap'[c.dimension].strong = heap[c.dimension].strong
                         /\ Alive(c.dimension)' = Alive(c.dimension)
              /\ \A m \in Deriveds \ {n} :
                     \A c \in Range(heap[m].def.components) :
                         /\ c \in Range(heap'[m].def.components)
                         /\ c.dimension = n => ( is_valid(c) /\ ~is_valid(c)' )
                         /\ c.dimension # n => ( is_valid(c)' = is_valid(c) ) ]_vars

C19_Witness ==
    /\ ret.op = "drop"
    /\ ret.args.kind = "Derived"
    /\ heap[ret.args.target].strong = 0
    /\ \E m \in Deriveds :
           /\ \E c \in Range(heap[m].def.components) :
                  c.dimension = ret.args.target /\ ~is_valid(c)
    /\ \A m \in Allocs \ { ret.args.target } :
           /\ heap[m].strong > 0
           /\ m < ret.args.target => heap[m].def.kind = "Base"

\* C20: validity of a component is monotone: once is_valid() is false it is
\* false in every later state and dimension() is None in every later state,
\* whatever is done next, creating a new dimension with the same name and
\* symbol included.
C20_ValidityMonotone ==
    [][ \A c \in AllComponents :
          ( c \in AllComponents' /\ ~is_valid(c) ) =>
              /\ ~is_valid(c)'
              /\ DimensionComponent_dimension(c)' = None ]_vars

C20_Witness ==
    /\ ret.op = "is_valid"
    /\ ret.result = Bool(FALSE)
    /\ ret.args.c \in pool
    /\ \E n \in Owned :
           /\ n > ret.args.c.dimension
           /\ heap[n].def = BaseDimensionDef_new(<< "L" >>, << "l" >>).val

\* C21: a handle returned by dimension() is a strong owner of its own: the
\* call adds one owner to the target, a drop that leaves an owner behind
\* leaves every component on the target valid, and a component turns
\* invalid only in the drop of the last owner, the handle included.
C21_HandleIsStrongOwner ==
    [][ /\ ( ret'.op = "dimension" /\ ret'.result.tag = "Some" ) =>
              /\ heap'[ret'.result.val].strong = heap[ret'.result.val].strong + 1
              /\ \A c \in AllComponents : c = ret'.args.c => is_valid(c)'
        /\ \A c \in AllComponents :
              /\ ( ret'.op = "drop" /\ ret'.args.target = c.dimension
                      /\ heap[c.dimension].strong > 1 ) =>
                     /\ is_valid(c)'
                     /\ DimensionComponent_dimension(c)' = Some(c.dimension)
              /\ ( is_valid(c) /\ ~is_valid(c)' ) =>
                     /\ ret'.op = "drop"
                     /\ ret'.args.target = c.dimension
                     /\ heap[c.dimension].strong = 1 ]_vars

C21_Witness ==
    /\ ret.op = "drop"
    /\ heap[ret.args.target].strong = 1
    /\ \E c \in pool : c.dimension = ret.args.target /\ is_valid(c)

\* C22: every graph the constructors can build is acyclic: following the
\* components of derived dimensions from any allocation never leads back to
\* it.
Edges(n) ==
    IF heap[n].def.kind = "Derived"
    THEN { c.dimension : c \in Range(heap[n].def.components) }
    ELSE {}

RECURSIVE ReachableFrom(_, _)
ReachableFrom(S, k) ==
    IF k = 0
    THEN S
    ELSE ReachableFrom(S \cup UNION { Edges(m) : m \in S }, k - 1)

C22_GraphAcyclic ==
    \A n \in Allocs : n \notin ReachableFrom(Edges(n), Len(heap))

C22_Witness ==
    /\ ret.op = "Arc::new_cyclic"
    /\ heap[ret.result.val].def.kind = "Derived"
    /\ Edges(ret.result.val) # {}

====
